---- MODULE Spec2Model ----
(***************************************************************************)
(* Model of the MioVo local bridge server (src/server.js): a WebSocket     *)
(* relay with a connection registry, a periodic service-status broadcast,  *)
(* a message router with asynchronous handlers, and a SIGINT shutdown      *)
(* handler.  Node runs every callback to its next await atomically, so     *)
(* each action is one callback, or one handler segment between two awaits. *)
(***************************************************************************)
EXTENDS Integers, Sequences, FiniteSets, TLC

\* ------------------------------------------------------------------ bounds
MaxConns == 2        \* connections accepted in one run
MaxCycles == 2       \* updateServiceStatus invocations in one run
MaxTicks == 2        \* largest number of progress ticks a positive epochs needs
MaxTrainings == 2    \* inbound messages in one run of SpecTraining
MaxVoice == 1        \* inbound messages in one run of SpecVoice
MaxUploads == 1      \* inbound messages in one run of SpecUpload
MaxStored == 1       \* inbound messages in one run of SpecShutdown
MaxInFlight == 1     \* inbound messages in one run of SpecDisconnect
MaxFailures == 2     \* inbound messages in one run of SpecFailures
MaxPassthrough == 1  \* inbound messages in one run of SpecPassthrough
MaxRouted == 2       \* inbound messages in one run of SpecRouter
MaxConcurrent == 3   \* inbound messages in one run of SpecConcurrent
MaxJobs == 2         \* inbound messages in one run of SpecJobs

\* --------------------------------------------------------------- constants
STEP == 10           \* currentEpoch += 10

Conns == 1..MaxConns
NoRid == 0           \* the message has no requestId field
Rids == {NoRid, 1, 2}
\* epochs values a client sends (integers only): negative, zero, and positive
\* ones that are and are not multiples of the step
EpochValues == {0 - STEP, 0} \cup {5 * k : k \in 1..(2 * MaxTicks)}

VARIABLES
    clients,      \* the Map clientId -> ws, as its keys in insertion order
    readyState,   \* ws.readyState of every connection ("NONE": not accepted yet)
    sent,         \* per connection, every message handed to ws.send, in order
    reqs,         \* inbound messages in order of receipt, each with the state of
                  \* its handler: position, currentEpoch, progressInterval, setTimeout
    storage,      \* request indices whose file is in uploads/
    cycles,       \* updateServiceStatus invocations, with their position
    proc,         \* "running", "shutdown" (SIGINT handler awaiting fs.rm), "exited"
    accepting,    \* the WebSocket and HTTP servers still accept connections
    shutdownLog   \* what the SIGINT handler did, in order

vars == <<clients, readyState, sent, reqs, storage, cycles,
          proc, accepting, shutdownLog>>

\* ---------------------------------------------------------------- messages
\* One outbound JSON message.  rid = NoRid: no requestId field.  req: the
\* index in reqs of the request whose handler or timer sent it, 0 for none
\* (for the training messages it stands for the modelId).  cycle: the index
\* in cycles of the updateServiceStatus invocation that sent it, 0 for none.
\* payload: "backend" (what the backend returned), "fallback" (the built-in
\* speakers or the silent WAV), the data.status of a message that has one,
\* "none" otherwise.  clientId: the data.clientId of the confirmation, 0 in
\* every other message.
Msg(type, rid, req) ==
    [type |-> type, rid |-> rid, req |-> req, cycle |-> 0, payload |-> "none",
     clientId |-> 0,
     currentEpoch |-> 0, totalEpochs |-> 0, progress |-> 0, mock |-> FALSE,
     voicevox |-> FALSE, rvc |-> FALSE, delivered |-> FALSE]

\* ws.send(data) without a callback: written to the socket when the
\* connection is OPEN, discarded without raising otherwise
SendDropped(s, c, m) == [s EXCEPT ![c] = Append(@, [m EXCEPT !.delivered = FALSE])]
SendThrough(s, c, m) == [s EXCEPT ![c] = Append(@, [m EXCEPT !.delivered = TRUE])]
SendWhen(state, s, c, m) ==
    IF state = "OPEN" THEN SendThrough(s, c, m) ELSE SendDropped(s, c, m)
Send(s, c, m) == SendWhen(readyState[c], s, c, m)

\* the messages of connection c that reached the client
Delivered(c) == SelectSeq(sent[c], LAMBDA m : m.delivered)

IsRegistered(c) == \E i \in 1..Len(clients) : clients[i] = c

\* clients.delete(clientId)
MapDeleteNone(m, c) == m
MapDelete(m, c) == SelectSeq(m, LAMBDA x : x # c)

Running == proc # "exited"

\* -------------------------------------------------------------------- Init
Init ==
    /\ clients = <<>>
    /\ readyState = [c \in Conns |-> "NONE"]
    /\ sent = [c \in Conns |-> <<>>]
    /\ reqs = <<>>
    /\ storage = {}
    /\ cycles = <<>>
    /\ proc = "running"
    /\ accepting = TRUE
    /\ shutdownLog = <<>>

\* ------------------------------------------------------- status broadcaster
\* updateServiceStatus up to its first await: the probe of VOICEVOX_URL is
\* in flight.  startedBy: the connection whose acceptance called it, 0 for
\* the interval; atTick: the Map when the interval fired.
NewCycle(reg, c) ==
    [pc |-> "probe_voicevox", voicevox |-> FALSE, rvc |-> FALSE, startedBy |-> c,
     atTick |-> IF c = 0 THEN reg ELSE <<>>]

StatusMessage(k, voicevoxStatus, rvcStatus) ==
    [Msg("service-status", NoRid, 0) EXCEPT
        !.cycle = k, !.voicevox = voicevoxStatus, !.rvc = rvcStatus]

\* for (const [_, client] of clients) if (client.readyState === 1) client.send(...)
RECURSIVE BroadcastStop(_, _, _, _)
BroadcastStop(s, reg, i, m) ==
    IF i > Len(reg) THEN s
    ELSE IF readyState[reg[i]] = "OPEN"
         THEN BroadcastStop(SendThrough(s, reg[i], m), reg, i + 1, m)
         ELSE s
RECURSIVE Broadcast(_, _, _, _)
Broadcast(s, reg, i, m) ==
    IF i > Len(reg) THEN s
    ELSE IF readyState[reg[i]] = "OPEN"
         THEN Broadcast(SendThrough(s, reg[i], m), reg, i + 1, m)
         ELSE Broadcast(s, reg, i + 1, m)

\* the loop iterates the Map as it is when the loop runs, after both probes
BroadcastTargetsAtTick(k) == IF cycles[k].startedBy = 0 THEN cycles[k].atTick ELSE clients
BroadcastTargets(k) == clients

\* setInterval(updateServiceStatus, 5000) fires
StatusTick ==
    /\ Running
    /\ cycles' = Append(cycles, NewCycle(clients, 0))
    /\ UNCHANGED <<clients, readyState, sent, reqs, storage,
                   proc, accepting, shutdownLog>>

\* checkServiceStatus(VOICEVOX_URL) settles: true on status 200, false on any failure
VoicevoxProbed(k) ==
    /\ Running
    /\ cycles[k].pc = "probe_voicevox"
    /\ \E up \in BOOLEAN :
          cycles' = [cycles EXCEPT ![k].pc = "probe_rvc", ![k].voicevox = up]
    /\ UNCHANGED <<clients, readyState, sent, reqs, storage,
                   proc, accepting, shutdownLog>>

\* checkServiceStatus(RVC_URL + '/health') settles; the snapshot is built and
\* broadcast in the same turn
RvcProbed(k) ==
    /\ Running
    /\ cycles[k].pc = "probe_rvc"
    /\ \E up \in BOOLEAN :
          /\ cycles' = [cycles EXCEPT ![k].pc = "done", ![k].rvc = up]
          /\ sent' = Broadcast(sent, BroadcastTargets(k), 1,
                                StatusMessage(k, cycles[k].voicevox, up))
    /\ UNCHANGED <<clients, readyState, reqs, storage,
                   proc, accepting, shutdownLog>>

\* ------------------------------------------------------ connection lifecycle
\* the confirmation: type and data (clientId, message), no requestId
Connected(c) == [Msg("connected", NoRid, 0) EXCEPT !.clientId = c]

\* wss.on('connection'): register under a fresh id, confirm, start a status check
AcceptWithoutStatus ==
    /\ Running
    /\ accepting
    /\ \E c \in Conns :
          /\ readyState[c] = "NONE"
          /\ \A d \in Conns : d < c => readyState[d] # "NONE"
          /\ readyState' = [readyState EXCEPT ![c] = "OPEN"]
          /\ clients' = Append(clients, c)
          /\ sent' = SendThrough(sent, c, Connected(c))
    /\ UNCHANGED <<reqs, storage, cycles, proc, accepting, shutdownLog>>
Accept ==
    /\ Running
    /\ accepting
    /\ \E c \in Conns :
          /\ readyState[c] = "NONE"
          /\ \A d \in Conns : d < c => readyState[d] # "NONE"
          /\ readyState' = [readyState EXCEPT ![c] = "OPEN"]
          /\ clients' = Append(clients, c)
          /\ sent' = SendThrough(sent, c, Connected(c))
          /\ cycles' = Append(cycles, NewCycle(clients', c))
    /\ UNCHANGED <<reqs, storage, proc, accepting, shutdownLog>>

\* the client's close frame arrived: readyState is CLOSING and the 'close'
\* event has not been emitted yet
Closing(c) ==
    /\ Running
    /\ readyState[c] = "OPEN"
    /\ readyState' = [readyState EXCEPT ![c] = "CLOSING"]
    /\ UNCHANGED <<clients, sent, reqs, storage, cycles,
                   proc, accepting, shutdownLog>>

\* the socket closed: readyState is CLOSED and ws.on('close') runs
OnClose(c) ==
    /\ Running
    /\ readyState[c] \in {"OPEN", "CLOSING"}
    /\ readyState' = [readyState EXCEPT ![c] = "CLOSED"]
    /\ clients' = MapDelete(clients, c)
    /\ UNCHANGED <<sent, reqs, storage, cycles,
                   proc, accepting, shutdownLog>>

\* ------------------------------------------------------------ message router
\* One inbound message that parsed as JSON, with the state of its handler.
\* data: "object", "absent" (request.data is undefined or null, so reading
\* a property of it throws a TypeError), or "primitive" (a string, a number
\* or a boolean: every property read of it gives undefined).
Request(c, type, rid, data) ==
    [conn |-> c, type |-> type, rid |-> rid, data |-> data, epochs |-> 0,
     fileData |-> "none", endpoint |-> "none", pc |-> "done", okCalls |-> 0, failedCalls |-> 0,
     currentEpoch |-> 0, progressInterval |-> "none", timeout |-> "none"]

\* ws.on('message') fires on an open connection of the running process,
\* whatever earlier handlers are waiting for
CanReceiveWhenIdle(c) ==
    /\ Running
    /\ readyState[c] = "OPEN"
    /\ \A r \in 1..Len(reqs) : reqs[r].conn = c => reqs[r].pc = "done"
CanReceive(c) ==
    /\ Running
    /\ readyState[c] = "OPEN"

ReqIds == 1..Len(reqs)

\* ws in the closure of the handler and of its timers: the connection whose
\* 'message' event delivered request r
HandlerSocketLatest(r) == IF clients = <<>> THEN reqs[r].conn ELSE clients[Len(clients)]
HandlerSocket(r) == reqs[r].conn

\* the messages sent for request r, in order, whether they were delivered or not
SentFor(r) == SelectSeq(sent[reqs[r].conn], LAMBDA m : m.req = r)
\* how many messages of sequence q have a given type
Count(q, type) == Len(SelectSeq(q, LAMBDA m : m.type = type))

\* ------------------------------------------------------- rvc-start-training
\* progress: (currentEpoch / epochs) * 100, in whole percent; a division by
\* zero gives Infinity, which JSON.stringify writes as null (here -1)
Progress(currentEpoch, epochs) ==
    IF epochs = 0 THEN 0 - 1
    ELSE IF epochs > 0 THEN (currentEpoch * 100) \div epochs
    ELSE 0 - ((currentEpoch * 100) \div (0 - epochs))

\* case 'rvc-start-training', the whole handler: it has no await
RecvStartTraining(c, rid, data, epochs) ==
    /\ CanReceive(c)
    /\   LET r == Len(reqs) + 1
             request == [Request(c, "rvc-start-training", rid, data) EXCEPT !.epochs = epochs]
         IN IF data = "absent"
            THEN \* the destructuring of request.data throws: inner catch
                 /\ sent' = Send(sent, c, Msg("error", rid, r))
                 /\ reqs' = Append(reqs, [request EXCEPT !.epochs = 0])
            ELSE /\ sent' = Send(sent, c,
                        [Msg("rvc-training-started", rid, r) EXCEPT !.totalEpochs = epochs])
                 /\ reqs' = Append(reqs, [request EXCEPT !.progressInterval = "active"])
    /\ UNCHANGED <<clients, readyState, storage, cycles, proc, accepting, shutdownLog>>

\* if (currentEpoch >= epochs): the interval is cleared and the completion sent
TrainingFinished(currentEpoch, epochs) == currentEpoch >= epochs

\* let currentEpoch = 0: a variable of the handler's invocation, one per job
CurrentEpochShared(r) ==
    LET Largest[i \in 0..Len(reqs)] ==
            IF i = 0 THEN 0
            ELSE IF reqs[i].currentEpoch > Largest[i - 1] THEN reqs[i].currentEpoch
                 ELSE Largest[i - 1]
    IN Largest[Len(reqs)]
CurrentEpoch(r) == reqs[r].currentEpoch

\* the setInterval callback of request r fires
ProgressTick(r) ==
    /\ Running
    /\ reqs[r].progressInterval = "active"
    /\ LET c == HandlerSocket(r)
           epochs == reqs[r].epochs
           currentEpoch == CurrentEpoch(r) + STEP
           progress == [Msg("rvc-training-progress", NoRid, r) EXCEPT
                           !.currentEpoch = currentEpoch, !.totalEpochs = epochs,
                           !.progress = Progress(currentEpoch, epochs)]
       IN IF TrainingFinished(currentEpoch, epochs)
          THEN /\ reqs' = [reqs EXCEPT ![r].currentEpoch = currentEpoch,
                                       ![r].progressInterval = "cleared"]
               /\ sent' = Send(Send(sent, c, progress), c,
                               Msg("rvc-training-complete", NoRid, r))
          ELSE /\ reqs' = [reqs EXCEPT ![r].currentEpoch = currentEpoch]
               /\ sent' = Send(sent, c, progress)
    /\ UNCHANGED <<clients, readyState, storage, cycles, proc, accepting, shutdownLog>>

\* -------------------------------------------------------- voicevox-speakers
\* the reply of the inner catch: the built-in speakers
SpeakersFallback(r) ==
    [Msg("voicevox-speakers-response", reqs[r].rid, r) EXCEPT !.payload = "fallback"]

\* case 'voicevox-speakers' up to its await; the handler never reads request.data
RecvSpeakers(c, rid) ==
    /\ CanReceive(c)
    /\   reqs' = Append(reqs, [Request(c, "voicevox-speakers", rid, "absent") EXCEPT
                                  !.pc = "await_speakers"])
    /\ UNCHANGED <<clients, readyState, sent, storage, cycles, proc, accepting,
                   shutdownLog>>

\* axios.get(VOICEVOX_URL/speakers) settles
SpeakersSettled(r) ==
    /\ Running
    /\ reqs[r].pc = "await_speakers"
    /\ \E ok \in BOOLEAN :
         IF ok
         THEN /\ reqs' = [reqs EXCEPT ![r].pc = "done", ![r].okCalls = @ + 1]
              /\ sent' = Send(sent, HandlerSocket(r),
                     [Msg("voicevox-speakers-response", reqs[r].rid, r) EXCEPT
                         !.payload = "backend"])
         ELSE /\ reqs' = [reqs EXCEPT ![r].pc = "done", ![r].failedCalls = @ + 1]
              /\ sent' = Send(sent, HandlerSocket(r), SpeakersFallback(r))
    /\ UNCHANGED <<clients, readyState, storage, cycles, proc, accepting, shutdownLog>>

\* ------------------------------------------------------- voicevox-synthesis
\* the reply of the inner catch: the silent WAV, tagged mock
SynthesisFallbackAsError(r) == Msg("error", reqs[r].rid, r)
SynthesisFallback(r) ==
    [Msg("voicevox-synthesis-response", reqs[r].rid, r) EXCEPT
        !.payload = "fallback", !.mock = TRUE]

\* the reply of the outer catch of the message handler: no requestId
HandlingError(r) == Msg("error", NoRid, r)

\* case 'voicevox-synthesis' up to its first await.  Without request.data,
\* request.data.text throws while the arguments of axios.post are built; the
\* inner catch reads request.data.text again and throws to the outer catch.
RecvSynthesis(c, rid, data) ==
    /\ CanReceive(c)
    /\   LET r == Len(reqs) + 1
             request == Request(c, "voicevox-synthesis", rid, data)
         IN IF data = "absent"
            THEN /\ reqs' = Append(reqs, request)
                 /\ sent' = Send(sent, c, HandlingError(r))
            ELSE /\ reqs' = Append(reqs, [request EXCEPT !.pc = "await_audio_query"])
                 /\ sent' = sent
    /\ UNCHANGED <<clients, readyState, storage, cycles, proc, accepting, shutdownLog>>

\* axios.post(VOICEVOX_URL/audio_query) settles
AudioQuerySettled(r) ==
    /\ Running
    /\ reqs[r].pc = "await_audio_query"
    /\ \E ok \in BOOLEAN :
         IF ok
         THEN /\ reqs' = [reqs EXCEPT ![r].pc = "await_synthesis", ![r].okCalls = @ + 1]
              /\ sent' = sent
         ELSE /\ reqs' = [reqs EXCEPT ![r].pc = "done", ![r].failedCalls = @ + 1]
              /\ sent' = Send(sent, HandlerSocket(r), SynthesisFallback(r))
    /\ UNCHANGED <<clients, readyState, storage, cycles, proc, accepting, shutdownLog>>

\* axios.post(VOICEVOX_URL/synthesis) settles
SynthesisSettled(r) ==
    /\ Running
    /\ reqs[r].pc = "await_synthesis"
    /\ \E ok \in BOOLEAN :
         IF ok
         THEN /\ reqs' = [reqs EXCEPT ![r].pc = "done", ![r].okCalls = @ + 1]
              /\ sent' = Send(sent, HandlerSocket(r),
                     [Msg("voicevox-synthesis-response", reqs[r].rid, r) EXCEPT
                         !.payload = "backend"])
         ELSE /\ reqs' = [reqs EXCEPT ![r].pc = "done", ![r].failedCalls = @ + 1]
              /\ sent' = Send(sent, HandlerSocket(r), SynthesisFallback(r))
    /\ UNCHANGED <<clients, readyState, storage, cycles, proc, accepting, shutdownLog>>

\* ------------------------------------------------- rvc-upload-training-data
\* the push of the setTimeout callback: type and data only
ProcessingCompleteWithId(r) ==
    [Msg("rvc-processing-complete", reqs[r].rid, r) EXCEPT !.payload = "ready"]
ProcessingComplete(r) ==
    [Msg("rvc-processing-complete", NoRid, r) EXCEPT !.payload = "ready"]

\* setTimeout(..., 2000) is reached only after the write and the reply
TimeoutAlways(written) == "pending"
TimeoutAfterWrite(written) == IF written THEN "pending" ELSE "none"

\* case 'rvc-upload-training-data' up to its await.  fileData: "dataurl"
\* ("<header>,<base64>"), or "malformed" (missing, not a string, or without a
\* comma: split or Buffer.from throws before anything is written).
RecvUploadTrainingData(c, rid, data, fileData) ==
    /\ CanReceive(c)
    /\   LET r == Len(reqs) + 1
             request == Request(c, "rvc-upload-training-data", rid, data)
         IN IF data = "absent" \/ fileData = "malformed"
            THEN /\ reqs' = Append(reqs, [request EXCEPT !.fileData = fileData])
                 /\ sent' = Send(sent, c, Msg("error", rid, r))
            ELSE /\ reqs' = Append(reqs, [request EXCEPT !.fileData = fileData,
                                                         !.pc = "await_writeFile"])
                 /\ sent' = sent
    /\ UNCHANGED <<clients, readyState, storage, cycles, proc, accepting, shutdownLog>>

\* fs.writeFile settles: the reply and the timer on success, the inner catch on failure
WriteFileSettled(r) ==
    /\ Running
    /\ reqs[r].pc = "await_writeFile"
    /\ \E ok \in BOOLEAN :
         /\ reqs' = [reqs EXCEPT ![r].pc = "done",
                                 ![r].okCalls = IF ok THEN @ + 1 ELSE @,
                                 ![r].failedCalls = IF ok THEN @ ELSE @ + 1,
                                 ![r].timeout = TimeoutAfterWrite(ok)]
         /\ storage' = IF ok THEN storage \cup {r} ELSE storage
         /\ sent' = Send(sent, HandlerSocket(r),
                         IF ok THEN [Msg("rvc-upload-response", reqs[r].rid, r) EXCEPT
                                        !.payload = "processing"]
                         ELSE Msg("error", reqs[r].rid, r))
    /\ UNCHANGED <<clients, readyState, cycles, proc, accepting, shutdownLog>>

\* the setTimeout callback of request r fires
UploadTimeout(r) ==
    /\ Running
    /\ reqs[r].timeout = "pending"
    /\ reqs' = [reqs EXCEPT ![r].timeout = "fired"]
    /\ sent' = Send(sent, HandlerSocket(r), ProcessingComplete(r))
    /\ UNCHANGED <<clients, readyState, storage, cycles, proc, accepting, shutdownLog>>

\* --------------------------------------------------------------------- ping
\* the reply of case 'ping': type, data.timestamp and the requestId
PongWithoutId(rid, r) == Msg("pong", NoRid, r)
Pong(rid, r) == Msg("pong", rid, r)

\* case 'ping', the whole handler; it never reads request.data
RecvPing(c, rid) ==
    /\ CanReceive(c)
    /\   LET r == Len(reqs) + 1
         IN /\ reqs' = Append(reqs, Request(c, "ping", rid, "absent"))
            /\ sent' = Send(sent, c, Pong(rid, r))
    /\ UNCHANGED <<clients, readyState, storage, cycles, proc, accepting, shutdownLog>>

\* ------------------------------------------------------------------ default
\* request.type values that no case of the switch matches: a name it does
\* not know, and "undefined" for a message without a type field
UnknownTypes == {"bogus", "undefined"}

\* the reply of the default branch: the error names request.type
UnknownTypeWithoutId(type, rid, r) == [Msg("error", NoRid, r) EXCEPT !.payload = type]
UnknownType(type, rid, r) == [Msg("error", rid, r) EXCEPT !.payload = type]

\* default, the whole handler
RecvUnknown(c, type, rid) ==
    /\ CanReceive(c)
    /\   LET r == Len(reqs) + 1
         IN /\ reqs' = Append(reqs, Request(c, type, rid, "absent"))
            /\ sent' = Send(sent, c, UnknownType(type, rid, r))
    /\ UNCHANGED <<clients, readyState, storage, cycles, proc, accepting, shutdownLog>>

\* --------------------------------------------------------------- JSON.parse
\* what JSON.parse cannot turn into a request: "invalid" (not JSON: JSON.parse
\* throws) and "null" (the JSON null: reading request.type throws)
Unparsable == {"invalid", "null"}

\* the message handler on such a text: the outer catch replies.  rid: the
\* requestId the sender wrote into the text, which the handler never gets
\* hold of.
RecvUnparsableClosing(c, text, rid) ==
    /\ CanReceive(c)
    /\   LET r == Len(reqs) + 1
         IN /\ reqs' = Append(reqs, Request(c, text, rid, "absent"))
            /\ sent' = Send(sent, c, HandlingError(r))
    /\ readyState' = [readyState EXCEPT ![c] = "CLOSING"]
    /\ UNCHANGED <<clients, storage, cycles, proc, accepting, shutdownLog>>
RecvUnparsable(c, text, rid) ==
    /\ CanReceive(c)
    /\   LET r == Len(reqs) + 1
         IN /\ reqs' = Append(reqs, Request(c, text, rid, "absent"))
            /\ sent' = Send(sent, c, HandlingError(r))
    /\ UNCHANGED <<clients, readyState, storage, cycles, proc, accepting, shutdownLog>>

\* ----------------------------------------------------- rvc-voice-conversion
\* the reply of the try block: the input audio and the modelId, as read from
\* request.data
ConversionResponse(rid, r) ==
    [Msg("rvc-conversion-response", rid, r) EXCEPT !.payload = "converted"]

\* case 'rvc-voice-conversion', the whole handler: it has no await.  The
\* destructuring of request.data throws only when data is undefined or null.
RecvConversion(c, rid, data) ==
    /\ CanReceive(c)
    /\   LET r == Len(reqs) + 1
         IN /\ reqs' = Append(reqs, Request(c, "rvc-voice-conversion", rid, data))
            /\ sent' = Send(sent, c, IF data = "absent" THEN Msg("error", rid, r)
                                     ELSE ConversionResponse(rid, r))
    /\ UNCHANGED <<clients, readyState, storage, cycles, proc, accepting, shutdownLog>>

\* --------------------------------------------------------- voicevox_request
\* endpoint of request.data.payload: "path" (a string), "missing" (no payload,
\* no endpoint, or a falsy one), "nonstring" (a truthy value without string
\* methods, so endpoint.includes throws before the call is made)
Endpoints == {"path", "missing", "nonstring"}

\* the reply of the inner catch: the backend's status text or the error's message
ApiErrorAsFallback(rid, r) ==
    [Msg("voicevox_request-response", rid, r) EXCEPT !.payload = "fallback", !.mock = TRUE]
ApiError(rid, r) == [Msg("error", rid, r) EXCEPT !.payload = "api error"]

\* the reply to a missing endpoint
EndpointMissingWithoutId(rid, r) ==
    [Msg("error", NoRid, r) EXCEPT !.payload = "endpoint missing"]
EndpointMissing(rid, r) == [Msg("error", rid, r) EXCEPT !.payload = "endpoint missing"]

\* a request's (data, endpoint): const { endpoint } = request.data.payload || {}
\* finds no endpoint in a data that is not an object
PayloadShapes ==
    {<<"object", e>> : e \in Endpoints} \cup {<<"primitive", "missing">>, <<"absent", "missing">>}

\* case 'voicevox_request' up to its await
RecvVoicevoxRequest(c, rid, data, endpoint) ==
    /\ CanReceive(c)
    /\   LET r == Len(reqs) + 1
             request == [Request(c, "voicevox_request", rid, data) EXCEPT
                            !.endpoint = endpoint]
         IN IF data = "absent"
            THEN \* request.data.payload throws: inner catch
                 /\ reqs' = Append(reqs, request)
                 /\ sent' = Send(sent, c, ApiError(rid, r))
            ELSE IF request.endpoint = "missing"
            THEN /\ reqs' = Append(reqs, request)
                 /\ sent' = Send(sent, c, EndpointMissing(rid, r))
            ELSE IF request.endpoint = "nonstring"
            THEN /\ reqs' = Append(reqs, request)
                 /\ sent' = Send(sent, c, ApiError(rid, r))
            ELSE /\ reqs' = Append(reqs, [request EXCEPT !.pc = "await_request"])
                 /\ sent' = sent
    /\ UNCHANGED <<clients, readyState, storage, cycles, proc, accepting, shutdownLog>>

\* axios(axiosConfig) settles: any failure, a timeout after 30 s included,
\* goes to the inner catch
VoicevoxRequestSettled(r) ==
    /\ Running
    /\ reqs[r].pc = "await_request"
    /\ \E ok \in BOOLEAN :
         IF ok
         THEN /\ reqs' = [reqs EXCEPT ![r].pc = "done", ![r].okCalls = @ + 1]
              /\ sent' = Send(sent, HandlerSocket(r),
                     [Msg("voicevox_request-response", reqs[r].rid, r) EXCEPT
                         !.payload = "backend"])
         ELSE /\ reqs' = [reqs EXCEPT ![r].pc = "done", ![r].failedCalls = @ + 1]
              /\ sent' = Send(sent, HandlerSocket(r), ApiError(reqs[r].rid, r))
    /\ UNCHANGED <<clients, readyState, storage, cycles, proc, accepting, shutdownLog>>

\* ------------------------------------------------------------------ SIGINT
\* ws.close(): an OPEN connection becomes CLOSING, its 'close' event comes later
CloseSocket(rs, c) == [rs EXCEPT ![c] = IF @ = "OPEN" THEN "CLOSING" ELSE @]

\* one client of the loop: client.send(server-shutdown), then client.close().
\* st: the sockets' readyState, the messages sent and the log so far.
ShutdownClientCloseFirst(st, c) ==
    [readyState |-> CloseSocket(st.readyState, c),
     sent |-> SendWhen(CloseSocket(st.readyState, c)[c], st.sent, c,
                       Msg("server-shutdown", NoRid, 0)),
     log |-> st.log \o <<[ev |-> "close", conn |-> c], [ev |-> "send", conn |-> c]>>]
ShutdownClient(st, c) ==
    [readyState |-> CloseSocket(st.readyState, c),
     sent |-> SendWhen(st.readyState[c], st.sent, c, Msg("server-shutdown", NoRid, 0)),
     log |-> st.log \o <<[ev |-> "send", conn |-> c], [ev |-> "close", conn |-> c]>>]

\* for (const [clientId, client] of clients) { client.send(...); client.close() }
RECURSIVE ShutdownLoop(_, _, _)
ShutdownLoop(st, reg, i) ==
    IF i > Len(reg) THEN st ELSE ShutdownLoop(ShutdownClient(st, reg[i]), reg, i + 1)

\* process.on('SIGINT') up to its await: the loop over clients, wss.close(),
\* server.close(), and fs.rm('uploads') started
Sigint ==
    /\ proc = "running"
    /\ LET st == ShutdownLoop([readyState |-> readyState, sent |-> sent, log |-> <<>>],
                              clients, 1)
       IN /\ readyState' = st.readyState
          /\ sent' = st.sent
          /\ shutdownLog' = st.log \o <<[ev |-> "wss.close", conn |-> 0],
                                        [ev |-> "server.close", conn |-> 0],
                                        [ev |-> "fs.rm", conn |-> 0]>>
    /\ accepting' = FALSE
    /\ proc' = "shutdown"
    /\ UNCHANGED <<clients, reqs, storage, cycles>>

\* fs.rm('uploads', {recursive, force}) settles, its failure is ignored;
\* process.exit(0)
RmSettled ==
    /\ proc = "shutdown"
    /\ \E ok \in BOOLEAN : storage' = IF ok THEN {} ELSE storage
    /\ proc' = "exited"
    /\ UNCHANGED <<clients, readyState, sent, reqs, cycles, accepting, shutdownLog>>

\* ------------------------------------------------------------ specifications
\* Each specification is the server under one kind of traffic; the inputs of
\* its messages are drawn from the sets below.
DataShapes == {"object", "absent"}
\* an upload's (data, fileData): a data URL, a payload split cannot cut, no data
UploadShapes == {<<"object", "dataurl">>, <<"object", "malformed">>, <<"absent", "malformed">>}

NextVoice ==
    \/ Len(cycles) < MaxCycles /\ Accept
    \/ Len(reqs) < MaxVoice /\ \E c \in Conns, rid \in Rids : RecvSpeakers(c, rid)
    \/ Len(reqs) < MaxVoice /\ \E c \in Conns, rid \in Rids, data \in DataShapes :
          RecvSynthesis(c, rid, data)
    \/ \E r \in ReqIds : SpeakersSettled(r)
    \/ \E r \in ReqIds : AudioQuerySettled(r)
    \/ \E r \in ReqIds : SynthesisSettled(r)
    \/ \E c \in Conns : Closing(c)
    \/ \E c \in Conns : OnClose(c)

SpecVoice == Init /\ [][NextVoice]_vars

NextUpload ==
    \/ Len(cycles) < MaxCycles /\ Accept
    \/ Len(reqs) < MaxUploads /\ \E c \in Conns, rid \in Rids, shape \in UploadShapes :
          RecvUploadTrainingData(c, rid, shape[1], shape[2])
    \/ \E r \in ReqIds : WriteFileSettled(r)
    \/ \E r \in ReqIds : UploadTimeout(r)
    \/ \E c \in Conns : Closing(c)
    \/ \E c \in Conns : OnClose(c)

SpecUpload == Init /\ [][NextUpload]_vars

\* shutdown with well-formed uploads in progress
NextShutdown ==
    \/ Len(cycles) < MaxCycles /\ Accept
    \/ Len(reqs) < MaxStored /\ \E c \in Conns :
          RecvUploadTrainingData(c, 1, "object", "dataurl")
    \/ \E r \in ReqIds : WriteFileSettled(r)
    \/ \E r \in ReqIds : UploadTimeout(r)
    \/ \E c \in Conns : Closing(c)
    \/ \E c \in Conns : OnClose(c)
    \/ Sigint
    \/ RmSettled

SpecShutdown == Init /\ [][NextShutdown]_vars

\* well-formed requests of the three kinds that leave work behind them
NextDisconnect ==
    \/ Len(cycles) < MaxCycles /\ Accept
    \/ Len(reqs) < MaxInFlight /\ \E c \in Conns : RecvSynthesis(c, 1, "object")
    \/ \E r \in ReqIds : AudioQuerySettled(r)
    \/ \E r \in ReqIds : SynthesisSettled(r)
    \/ Len(reqs) < MaxInFlight /\ \E c \in Conns :
          RecvUploadTrainingData(c, 1, "object", "dataurl")
    \/ \E r \in ReqIds : WriteFileSettled(r)
    \/ \E r \in ReqIds : UploadTimeout(r)
    \/ Len(reqs) < MaxInFlight /\ \E c \in Conns, epochs \in {STEP, STEP + 5} :
          RecvStartTraining(c, 1, "object", epochs)
    \/ \E r \in ReqIds : ProgressTick(r)
    \/ \E c \in Conns : Closing(c)
    \/ \E c \in Conns : OnClose(c)

SpecDisconnect == Init /\ [][NextDisconnect]_vars

NextTraining ==
    \/ Len(cycles) < MaxCycles /\ Accept
    \/ Len(reqs) < MaxTrainings /\
          \E c \in Conns, rid \in Rids, data \in DataShapes, epochs \in EpochValues :
             RecvStartTraining(c, rid, data, epochs)
    \/ \E r \in ReqIds : ProgressTick(r)
    \/ \E c \in Conns : Closing(c)
    \/ \E c \in Conns : OnClose(c)

SpecTraining == Init /\ [][NextTraining]_vars

NextStatus ==
    \/ Len(cycles) < MaxCycles /\ Accept
    \/ Len(cycles) < MaxCycles /\ StatusTick
    \/ \E k \in 1..Len(cycles) : VoicevoxProbed(k)
    \/ \E k \in 1..Len(cycles) : RvcProbed(k)
    \/ \E c \in Conns : Closing(c)
    \/ \E c \in Conns : OnClose(c)

SpecStatus == Init /\ [][NextStatus]_vars

\* the three kinds of request.data, and the uploads they can carry
AnyData == {"object", "absent", "primitive"}
AnyUpload == UploadShapes \cup {<<"primitive", "malformed">>}

\* messages whose handling can fail: what cannot be parsed, and requests of
\* the handlers that read request.data or call out
NextFailures ==
    \/ Len(cycles) < MaxCycles /\ Accept
    \/ Len(reqs) < MaxFailures /\ \E c \in Conns, text \in Unparsable :
          RecvUnparsable(c, text, 1)
    \/ Len(reqs) < MaxFailures /\ \E c \in Conns, data \in AnyData :
          RecvConversion(c, 1, data)
    \/ Len(reqs) < MaxFailures /\ \E c \in Conns, data \in AnyData :
          RecvSynthesis(c, 1, data)
    \/ \E r \in ReqIds : AudioQuerySettled(r)
    \/ \E r \in ReqIds : SynthesisSettled(r)
    \/ Len(reqs) < MaxFailures /\ \E c \in Conns, shape \in AnyUpload :
          RecvUploadTrainingData(c, 1, shape[1], shape[2])
    \/ \E r \in ReqIds : WriteFileSettled(r)
    \/ \E r \in ReqIds : UploadTimeout(r)
    \/ Len(reqs) < MaxFailures /\ \E c \in Conns : RecvStartTraining(c, 1, "absent", 0)
    \/ Len(reqs) < MaxFailures /\ \E c \in Conns, shape \in PayloadShapes :
          RecvVoicevoxRequest(c, 1, shape[1], shape[2])
    \/ \E r \in ReqIds : VoicevoxRequestSettled(r)
    \/ \E c \in Conns : Closing(c)
    \/ \E c \in Conns : OnClose(c)

SpecFailures == Init /\ [][NextFailures]_vars

\* passthrough requests of every shape
NextPassthrough ==
    \/ Len(cycles) < MaxCycles /\ Accept
    \/ Len(reqs) < MaxPassthrough /\ \E c \in Conns, rid \in Rids, shape \in PayloadShapes :
          RecvVoicevoxRequest(c, rid, shape[1], shape[2])
    \/ \E r \in ReqIds : VoicevoxRequestSettled(r)
    \/ \E c \in Conns : Closing(c)
    \/ \E c \in Conns : OnClose(c)

SpecPassthrough == Init /\ [][NextPassthrough]_vars

\* messages the router answers in the turn that receives them; the ones it
\* answers with an error come without a requestId or with one
NextRouter ==
    \/ Len(cycles) < MaxCycles /\ Accept
    \/ Len(reqs) < MaxRouted /\ \E c \in Conns, rid \in Rids : RecvPing(c, rid)
    \/ Len(reqs) < MaxRouted /\ \E c \in Conns, type \in UnknownTypes, rid \in {NoRid, 1} :
          RecvUnknown(c, type, rid)
    \/ Len(reqs) < MaxRouted /\ \E c \in Conns, text \in Unparsable, rid \in {NoRid, 1} :
          RecvUnparsable(c, text, rid)
    \/ \E c \in Conns : Closing(c)
    \/ \E c \in Conns : OnClose(c)

SpecRouter == Init /\ [][NextRouter]_vars

\* connections come and go while the interval never fires and both backends
\* are down.  Every probe settles: axios.get rejects after its timeout of
\* 2000 ms at the latest.
VoicevoxDown(k) == k <= Len(cycles) /\ VoicevoxProbed(k) /\ ~cycles'[k].voicevox
RvcDown(k) == k <= Len(cycles) /\ RvcProbed(k) /\ ~cycles'[k].rvc

NextAccept ==
    \/ Len(cycles) < MaxCycles /\ Accept
    \/ \E k \in 1..Len(cycles) : VoicevoxDown(k)
    \/ \E k \in 1..Len(cycles) : RvcDown(k)
    \/ \E c \in Conns : Closing(c)
    \/ \E c \in Conns : OnClose(c)

SpecAccept ==
    /\ Init /\ [][NextAccept]_vars
    /\ \A k \in 1..MaxCycles : WF_vars(VoicevoxDown(k)) /\ WF_vars(RvcDown(k))

\* the life of the registry: connections come and go, the interval fires,
\* both backends are down, and the process is shut down
NextRegistry ==
    \/ Len(cycles) < MaxCycles /\ Accept
    \/ Len(cycles) < MaxCycles /\ StatusTick
    \/ \E k \in 1..Len(cycles) : VoicevoxDown(k)
    \/ \E k \in 1..Len(cycles) : RvcDown(k)
    \/ \E c \in Conns : Closing(c)
    \/ \E c \in Conns : OnClose(c)
    \/ Sigint
    \/ RmSettled

SpecRegistry == Init /\ [][NextRegistry]_vars

\* requests that wait for the backend next to requests that do not, each
\* with a requestId of its own
NextConcurrent ==
    \/ Len(cycles) < MaxCycles /\ Accept
    \/ Len(reqs) < MaxConcurrent /\ \E c \in Conns : RecvSpeakers(c, Len(reqs) + 1)
    \/ Len(reqs) < MaxConcurrent /\ \E c \in Conns : RecvPing(c, Len(reqs) + 1)
    \/ \E r \in ReqIds : SpeakersSettled(r)
    \/ \E c \in Conns : OnClose(c)

SpecConcurrent == Init /\ [][NextConcurrent]_vars

\* training jobs and uploads side by side on connections that stay open,
\* each request with a requestId of its own
NextJobs ==
    \/ Len(cycles) < MaxCycles /\ Accept
    \/ Len(reqs) < MaxJobs /\ \E c \in Conns, epochs \in {STEP, 2 * STEP} :
          RecvStartTraining(c, Len(reqs) + 1, "object", epochs)
    \/ \E r \in ReqIds : ProgressTick(r)
    \/ Len(reqs) < MaxJobs /\ \E c \in Conns :
          RecvUploadTrainingData(c, Len(reqs) + 1, "object", "dataurl")
    \/ \E r \in ReqIds : WriteFileSettled(r)
    \/ \E r \in ReqIds : UploadTimeout(r)

SpecJobs == Init /\ [][NextJobs]_vars

\* ================================================================== claims
IsType(r, type) == reqs[r].type = type
\* the messages of sequence q of a given type
OfType(q, type) == SelectSeq(q, LAMBDA m : m.type = type)
Min(a, b) == IF a < b THEN a ELSE b
\* message types that answer a request (the others are pushes of its timers)
ReplyTypes ==
    {"error", "rvc-training-started", "rvc-upload-response",
     "voicevox-speakers-response", "voicevox-synthesis-response"}

\* ---------------------------------------------------------------------- C1
\* C1 (as claimed): for a start-training request with epochs = E > 0, the i-th
\* training-progress push carries currentEpoch = min(10 * i, E), so it rises
\* in steps of 10 and is clamped to E; once the interval is cleared exactly
\* one training-complete push has been sent, it is the last message of the
\* job, and the last progress value is exactly E.
C1Clamped ==
    \A r \in ReqIds :
        (IsType(r, "rvc-start-training") /\ reqs[r].data = "object" /\ reqs[r].epochs > 0) =>
            LET q == SentFor(r)
                prog == OfType(q, "rvc-training-progress")
            IN /\ \A i \in 1..Len(prog) :
                     prog[i].currentEpoch = Min(STEP * i, reqs[r].epochs)
               /\ Count(q, "rvc-training-complete") <= 1
               /\ reqs[r].progressInterval = "cleared" =>
                     /\ Count(q, "rvc-training-complete") = 1
                     /\ q[Len(q)].type = "rvc-training-complete"
                     /\ prog[Len(prog)].currentEpoch = reqs[r].epochs

\* ---------------------------------------------------------------------- C2
\* C2 (as claimed): a start-training request with epochs <= 0 is answered by
\* exactly one error reply echoing its requestId and by nothing else: no
\* training-started, no interval, no training-progress, no training-complete.
C2NonPositiveRejected ==
    \A r \in ReqIds :
        (IsType(r, "rvc-start-training") /\ reqs[r].data = "object" /\ reqs[r].epochs <= 0) =>
            LET q == SentFor(r)
            IN /\ Len(q) = 1
               /\ q[1].type = "error"
               /\ q[1].rid = reqs[r].rid
               /\ reqs[r].progressInterval = "none"

\* ---------------------------------------------------------------------- C3
\* C3 (as claimed): every reply to a request that carried a requestId echoes
\* that requestId, on every path of the message handler, the outer catch
\* included.
C3EveryReplyEchoes ==
    \A r \in ReqIds :
        reqs[r].rid # NoRid =>
            \A i \in 1..Len(SentFor(r)) :
                SentFor(r)[i].type \in ReplyTypes => SentFor(r)[i].rid = reqs[r].rid

\* ---------------------------------------------------------------------- C4
\* the request is a finished voicevox-speakers or voicevox-synthesis request
\* none of whose backend calls succeeded
VoiceUnreachable(r) ==
    /\ reqs[r].type \in {"voicevox-speakers", "voicevox-synthesis"}
    /\ reqs[r].pc = "done"
    /\ reqs[r].okCalls = 0

\* the one reply of request r is the fallback payload with its requestId
FallbackReply(r) ==
    LET q == SentFor(r)
    IN /\ Len(q) = 1
       /\ q[1].rid = reqs[r].rid
       /\ q[1].payload = "fallback"
       /\ IF IsType(r, "voicevox-synthesis")
          THEN q[1].type = "voicevox-synthesis-response" /\ q[1].mock
          ELSE q[1].type = "voicevox-speakers-response"

CycleIds == 1..Len(cycles)
\* the service-status messages of invocation k handed to connection c
StatusOf(c, k) == SelectSeq(sent[c], LAMBDA m : m.type = "service-status" /\ m.cycle = k)
\* connection c was accepted before invocation k began (invocations are
\* numbered in the order they begin, and every acceptance begins one)
RegisteredBefore(c, k) == \E j \in 1..k : cycles[j].startedBy = c

\* C5: once an invocation of updateServiceStatus has finished, every
\* connection that was registered when it began and is still open has
\* received its snapshot exactly once, whatever happened to the other
\* connections meanwhile; no connection received it twice, and every
\* snapshot handed out was delivered and carries the two probe results.
C5OpenConnectionsReceive ==
    \A k \in CycleIds :
        cycles[k].pc = "done" =>
            \A c \in Conns :
                /\ Len(StatusOf(c, k)) <= 1
                /\ \A i \in 1..Len(StatusOf(c, k)) :
                      /\ StatusOf(c, k)[i].delivered
                      /\ StatusOf(c, k)[i].voicevox = cycles[k].voicevox
                      /\ StatusOf(c, k)[i].rvc = cycles[k].rvc
                /\ (RegisteredBefore(c, k) /\ readyState[c] = "OPEN") =>
                      Len(StatusOf(c, k)) = 1

\* two connections were registered when invocation k began; the first one in
\* the Map was CLOSING when the loop ran and was skipped, the second one
\* received the snapshot
C5Witness ==
    \E k \in CycleIds, c1, c2 \in Conns :
        /\ cycles[k].pc = "done"
        /\ c1 < c2
        /\ RegisteredBefore(c1, k) /\ RegisteredBefore(c2, k)
        /\ IsRegistered(c1) /\ readyState[c1] = "CLOSING"
        /\ Len(StatusOf(c1, k)) = 0
        /\ readyState[c2] = "OPEN"
        /\ Len(StatusOf(c2, k)) = 1

\* ---------------------------------------------------------------------- C6
InSeq(x, q) == \E i \in 1..Len(q) : q[i] = x

\* C6 (as claimed): the snapshot of a periodic invocation goes only to
\* connections that were registered when its tick fired.
C6OnlyRegisteredAtTick ==
    \A k \in CycleIds :
        (cycles[k].startedBy = 0 /\ cycles[k].pc = "done") =>
            \A c \in Conns : Len(StatusOf(c, k)) > 0 => InSeq(c, cycles[k].atTick)

\* C6 (amended): the step that finishes the second probe of invocation k
\* hands its snapshot to exactly the connections that are registered and
\* OPEN at that step, once each, and to no other connection.
C6RegisteredAtBroadcast ==
    [][\A k \in CycleIds :
          (cycles[k].pc = "probe_rvc" /\ cycles'[k].pc = "done") =>
              \A c \in Conns :
                  /\ Len(StatusOf(c, k)) = 0
                  /\ Len(StatusOf(c, k)') =
                        IF IsRegistered(c) /\ readyState[c] = "OPEN" THEN 1 ELSE 0]_vars

\* a connection accepted after the tick of a periodic invocation received
\* that invocation's snapshot
C6Witness ==
    \E k \in CycleIds, c \in Conns :
        /\ cycles[k].startedBy = 0
        /\ cycles[k].pc = "done"
        /\ ~InSeq(c, cycles[k].atTick)
        /\ Len(StatusOf(c, k)) = 1
        /\ StatusOf(c, k)[1].delivered

\* ---------------------------------------------------------------------- C7
LogIds == 1..Len(shutdownLog)
LogHas(ev, c) == \E i \in LogIds : shutdownLog[i].ev = ev /\ shutdownLog[i].conn = c

\* the place of a step in the claimed order: all pushes, then all closes,
\* then the two servers stop accepting, then storage is released
ClaimedPhase(ev) ==
    CASE ev = "send" -> 1
      [] ev = "close" -> 2
      [] ev \in {"wss.close", "server.close"} -> 3
      [] ev = "fs.rm" -> 4

\* C7 (as claimed): the handler sends the server-shutdown push to every
\* registered connection, then closes every connection, then stops
\* accepting, then releases upload storage: no step of a later phase comes
\* before a step of an earlier one, so no connection is closed before every
\* registered connection has been sent the push.
C7AllPushedBeforeAnyClose ==
    \A i, j \in LogIds :
        ClaimedPhase(shutdownLog[i].ev) < ClaimedPhase(shutdownLog[j].ev) => i < j

\* the handler's record: one (send, close) pair per connection, then
\* wss.close, server.close, fs.rm
C7LogShape ==
    LET n == Len(shutdownLog)
    IN /\ n >= 3
       /\ (n - 3) % 2 = 0
       /\ shutdownLog[n - 2].ev = "wss.close"
       /\ shutdownLog[n - 1].ev = "server.close"
       /\ shutdownLog[n].ev = "fs.rm"
       /\ \A i \in 1..(n - 3) :
             i % 2 = 1 =>
                /\ shutdownLog[i].ev = "send"
                /\ shutdownLog[i + 1].ev = "close"
                /\ shutdownLog[i + 1].conn = shutdownLog[i].conn
                /\ \A j \in 1..(n - 3) :
                      (j # i /\ j % 2 = 1) => shutdownLog[j].conn # shutdownLog[i].conn

\* C7 (amended): on SIGINT the handler takes the registered connections one
\* by one and sends each the server-shutdown push immediately before closing
\* that same connection; after the last one it stops accepting, then starts
\* the release of upload storage.  Every connection registered at SIGINT is
\* handled, one that was open receives the push and is then CLOSING, and
\* storage is released only by the step that ends the shutdown.
C7PushThenClosePerConnection ==
    /\ [](IF proc = "running"
          THEN shutdownLog = <<>> /\ accepting
          ELSE /\ ~accepting
               /\ C7LogShape
               /\ \A c \in Conns : IsRegistered(c) =>
                     LogHas("send", c) /\ readyState[c] # "OPEN")
    /\ [][/\ (proc = "running" /\ proc' = "shutdown") =>
                \A c \in Conns :
                    IF IsRegistered(c)
                    THEN /\ LogHas("send", c)' /\ LogHas("close", c)'
                         /\ Len(sent'[c]) = Len(sent[c]) + 1
                         /\ sent'[c][Len(sent'[c])].type = "server-shutdown"
                         /\ sent'[c][Len(sent'[c])].delivered = (readyState[c] = "OPEN")
                         /\ readyState'[c] # "OPEN"
                    ELSE sent'[c] = sent[c] /\ ~LogHas("send", c)'
          /\ storage' # storage /\ storage' \subseteq storage =>
                /\ proc = "shutdown" /\ proc' = "exited"
                /\ storage' = {}]_vars

\* the process exited after two open connections were each sent the push,
\* and the stored upload was released
C7Witness ==
    /\ proc = "exited"
    /\ storage = {}
    /\ \E r \in ReqIds : reqs[r].okCalls = 1
    /\ \E c1, c2 \in Conns :
          /\ c1 # c2
          /\ \A c \in {c1, c2} :
                /\ LogHas("send", c)
                /\ \E i \in 1..Len(sent[c]) :
                      sent[c][i].type = "server-shutdown" /\ sent[c][i].delivered

\* ---------------------------------------------------------------------- C8
\* no message of request r was handed to a connection other than the one
\* that sent r
OnlyToSender(r) ==
    \A c \in Conns \ {reqs[r].conn} : \A i \in 1..Len(sent[c]) : sent[c][i].req # r

\* the backend call or timer that request r is waiting for is still due
WorkScheduled(r) ==
    /\ reqs[r].pc = "await_audio_query" => ENABLED AudioQuerySettled(r)
    /\ reqs[r].pc = "await_synthesis" => ENABLED SynthesisSettled(r)
    /\ reqs[r].pc = "await_writeFile" => ENABLED WriteFileSettled(r)
    /\ reqs[r].timeout = "pending" => ENABLED UploadTimeout(r)
    /\ reqs[r].progressInterval = "active" => ENABLED ProgressTick(r)

\* C8: whatever the state of the connection that sent a request, the
\* request's outstanding backend call or timer stays due and the process
\* keeps running; every message of a request is handed to the connection
\* that sent it and to no other; and a step taken while a connection is
\* CLOSING or CLOSED delivers nothing to it and does not change what the
\* other connections have been sent unless the step is theirs.
C8DisconnectDropsReplies ==
    /\ [](/\ proc = "running"
          /\ \A r \in ReqIds : WorkScheduled(r) /\ OnlyToSender(r))
    /\ [][\A c \in Conns :
             readyState[c] \in {"CLOSING", "CLOSED"} =>
                /\ Delivered(c)' = Delivered(c)
                /\ \A r \in ReqIds :
                      (reqs[r].conn = c /\ reqs'[r] # reqs[r]) =>
                          \A d \in Conns \ {c} : sent'[d] = sent[d]]_vars

\* a training job whose client is gone ran to its end: its interval is
\* cleared and its completion push was dropped, while another connection is
\* open and has only been sent its confirmation
C8Witness ==
    \E r \in ReqIds, d \in Conns :
        /\ IsType(r, "rvc-start-training")
        /\ readyState[reqs[r].conn] = "CLOSED"
        /\ reqs[r].progressInterval = "cleared"
        /\ SentFor(r)[Len(SentFor(r))].type = "rvc-training-complete"
        /\ ~SentFor(r)[Len(SentFor(r))].delivered
        /\ d # reqs[r].conn
        /\ readyState[d] = "OPEN"
        /\ Len(sent[d]) = 1

\* ---------------------------------------------------------------------- C9
\* C9: for an upload whose write succeeded, the file is in storage by the
\* time anything is sent; the first message is the upload-response (status
\* processing) with the requestId; at most one more message follows, the
\* processing-complete push without requestId, sent exactly when the timeout
\* fired; all of it on the connection that sent the request.
C9UploadOrder ==
    \A r \in ReqIds :
        IsType(r, "rvc-upload-training-data") =>
            LET q == SentFor(r)
            IN /\ OnlyToSender(r)
               /\ Count(q, "rvc-upload-response") > 0 => r \in storage
               /\ reqs[r].okCalls = 1 =>
                     /\ r \in storage
                     /\ Len(q) \in {1, 2}
                     /\ q[1].type = "rvc-upload-response"
                     /\ q[1].payload = "processing"
                     /\ q[1].rid = reqs[r].rid
                     /\ (Len(q) = 2) = (reqs[r].timeout = "fired")
                     /\ Len(q) = 2 =>
                           /\ q[2].type = "rvc-processing-complete"
                           /\ q[2].rid = NoRid

\* an upload with a requestId was written, answered and completed, and the
\* client received both messages
C9Witness ==
    \E r \in ReqIds :
        /\ IsType(r, "rvc-upload-training-data")
        /\ reqs[r].rid # NoRid
        /\ reqs[r].okCalls = 1
        /\ reqs[r].timeout = "fired"
        /\ Len(SentFor(r)) = 2
        /\ SentFor(r)[1].delivered /\ SentFor(r)[2].delivered

\* --------------------------------------------------------------------- C10
\* C10: an upload whose write failed has been sent exactly one message, an
\* error with its requestId; no timeout was set for it, so no
\* processing-complete follows, and its file is not in storage.
C10FailedWriteOnlyError ==
    \A r \in ReqIds :
        (IsType(r, "rvc-upload-training-data") /\ reqs[r].failedCalls = 1) =>
            /\ Len(SentFor(r)) = 1
            /\ SentFor(r)[1].type = "error"
            /\ SentFor(r)[1].rid = reqs[r].rid
            /\ reqs[r].timeout = "none"
            /\ r \notin storage
            /\ OnlyToSender(r)

\* the write of an upload with a requestId failed and the client received
\* the error
C10Witness ==
    \E r \in ReqIds :
        /\ IsType(r, "rvc-upload-training-data")
        /\ reqs[r].rid # NoRid
        /\ reqs[r].fileData = "dataurl"
        /\ reqs[r].failedCalls = 1
        /\ Len(SentFor(r)) = 1
        /\ SentFor(r)[1].delivered
\* --------------------------------------------------------------------- C11
\* the handlers that read request.data
ReadsData ==
    {"voicevox-synthesis", "rvc-upload-training-data", "rvc-start-training",
     "rvc-voice-conversion", "voicevox_request"}

\* the failures the claim speaks of: a text that is not a request, a data
\* field that is missing or not an object in a request whose handler reads
\* it, an upload that cannot be decoded or written, a passthrough call that
\* cannot be built or fails
HandlingFails(r) ==
    \/ reqs[r].type \in Unparsable
    \/ reqs[r].type \in ReadsData /\ reqs[r].data # "object"
    \/ reqs[r].fileData = "malformed"
    \/ IsType(r, "rvc-upload-training-data") /\ reqs[r].failedCalls > 0
    \/ IsType(r, "voicevox_request") /\
          (reqs[r].failedCalls > 0 \/ reqs[r].endpoint = "nonstring")

\* C11 (as claimed): every failure in the handling of an inbound message, a
\* data field that is missing or not an object included, ends in exactly one
\* reply for that message, of type error, on the connection that sent it,
\* with nothing left running for it; the step that handles the message
\* leaves every connection's state and the registry as they were, and the
\* process goes on running, so later messages on any open connection are
\* handled.
C11FailureOneError ==
    /\ [](\A r \in ReqIds :
             (HandlingFails(r) /\ reqs[r].pc = "done") =>
                 /\ Len(SentFor(r)) = 1
                 /\ SentFor(r)[1].type = "error"
                 /\ OnlyToSender(r)
                 /\ reqs[r].progressInterval = "none"
                 /\ reqs[r].timeout = "none")
    /\ [][reqs' # reqs =>
             /\ readyState' = readyState
             /\ clients' = clients
             /\ proc' = "running"
             /\ \A c \in Conns : readyState[c] = "OPEN" => CanReceive(c)']_vars

\* --------------------------------------------------------------------- C12
\* the backend calls request r has started: those that settled and the one
\* it is waiting for
BackendCalls(r) ==
    reqs[r].okCalls + reqs[r].failedCalls + (IF reqs[r].pc = "done" THEN 0 ELSE 1)

\* C12: a voicevox_request without an endpoint has been sent exactly one
\* message, an error with its requestId, on its own connection, as soon as
\* it is received; its handler is finished and has started no backend call.
C12MissingEndpointNoCall ==
    \A r \in ReqIds :
        (IsType(r, "voicevox_request") /\ reqs[r].endpoint = "missing") =>
            /\ Len(SentFor(r)) = 1
            /\ SentFor(r)[1].type = "error"
            /\ SentFor(r)[1].rid = reqs[r].rid
            /\ OnlyToSender(r)
            /\ reqs[r].pc = "done"
            /\ BackendCalls(r) = 0

\* a voicevox_request with a requestId and a data object without endpoint
\* was answered, and the client received the error
C12Witness ==
    \E r \in ReqIds :
        /\ IsType(r, "voicevox_request")
        /\ reqs[r].data = "object"
        /\ reqs[r].endpoint = "missing"
        /\ reqs[r].rid # NoRid
        /\ Len(SentFor(r)) = 1
        /\ SentFor(r)[1].payload = "endpoint missing"
        /\ SentFor(r)[1].delivered

\* --------------------------------------------------------------------- C13
\* C13: a voicevox_request with an endpoint path whose backend call failed
\* has been sent exactly one message, an error carrying the failure's text
\* and the requestId; it is not tagged mock and carries no fallback payload.
\* A voicevox_request-response is only ever sent for a call that succeeded,
\* and nothing is sent while the call is pending.
C13PassthroughFailureIsError ==
    \A r \in ReqIds :
        (IsType(r, "voicevox_request") /\ reqs[r].endpoint = "path") =>
            LET q == SentFor(r)
            IN /\ Count(q, "voicevox_request-response") = reqs[r].okCalls
               /\ Len(q) = (IF reqs[r].pc = "done" THEN 1 ELSE 0)
               /\ reqs[r].failedCalls > 0 =>
                     /\ Len(q) = 1
                     /\ q[1].type = "error"
                     /\ q[1].payload = "api error"
                     /\ q[1].rid = reqs[r].rid
                     /\ ~q[1].mock
                     /\ OnlyToSender(r)

\* the backend call of a voicevox_request with a requestId failed and the
\* client received the error
C13Witness ==
    \E r \in ReqIds :
        /\ IsType(r, "voicevox_request")
        /\ reqs[r].endpoint = "path"
        /\ reqs[r].rid # NoRid
        /\ reqs[r].failedCalls = 1
        /\ Len(SentFor(r)) = 1
        /\ SentFor(r)[1].type = "error"
        /\ SentFor(r)[1].delivered

\* --------------------------------------------------------------------- C14
\* no timer was started for request r
NoTimer(r) == reqs[r].progressInterval = "none" /\ reqs[r].timeout = "none"

\* C14: a message whose type no case matches (a message without a type
\* included) has been sent exactly one message, an error that names the type
\* and carries the message's requestId, on its own connection; its handler
\* is finished, has started no backend call and no timer.
C14UnknownTypeOneError ==
    \A r \in ReqIds :
        reqs[r].type \in UnknownTypes =>
            /\ Len(SentFor(r)) = 1
            /\ SentFor(r)[1].type = "error"
            /\ SentFor(r)[1].payload = reqs[r].type
            /\ SentFor(r)[1].rid = reqs[r].rid
            /\ OnlyToSender(r)
            /\ reqs[r].pc = "done"
            /\ BackendCalls(r) = 0
            /\ NoTimer(r)

\* a message of an unknown type with a requestId was answered and the
\* client received the error
C14Witness ==
    \E r \in ReqIds :
        /\ reqs[r].type = "bogus"
        /\ reqs[r].rid # NoRid
        /\ Len(SentFor(r)) = 1
        /\ SentFor(r)[1].delivered

\* --------------------------------------------------------------------- C15
\* the step received a text that is not a request
ReceivedUnparsable ==
    /\ Len(reqs') = Len(reqs) + 1
    /\ reqs'[Len(reqs')].type \in Unparsable

\* C15: a text that JSON.parse rejects (and the JSON null) has been sent
\* exactly one message, an error without requestId, whatever requestId the
\* text contained; the step that receives it leaves the state of every
\* connection and the registry unchanged, so the connection it arrived on is
\* still OPEN and registered after it.
C15UnparsableOneError ==
    /\ [](\A r \in ReqIds :
             reqs[r].type \in Unparsable =>
                 /\ Len(SentFor(r)) = 1
                 /\ SentFor(r)[1].type = "error"
                 /\ SentFor(r)[1].rid = NoRid
                 /\ OnlyToSender(r))
    /\ [][ReceivedUnparsable =>
             /\ readyState' = readyState
             /\ clients' = clients
             /\ readyState'[reqs'[Len(reqs')].conn] = "OPEN"
             /\ \E i \in 1..Len(clients') : clients'[i] = reqs'[Len(reqs')].conn]_vars

\* a text that is not JSON, written with a requestId, was answered by an
\* error the client received, and its connection is open and registered
C15Witness ==
    \E r \in ReqIds :
        /\ reqs[r].type = "invalid"
        /\ reqs[r].rid # NoRid
        /\ Len(SentFor(r)) = 1
        /\ SentFor(r)[1].delivered
        /\ readyState[reqs[r].conn] = "OPEN"
        /\ IsRegistered(reqs[r].conn)

\* --------------------------------------------------------------------- C17
\* C17: every ping has been sent exactly one message, a pong with the
\* ping's requestId, on its own connection, in the turn that received it;
\* its handler is finished and has started no backend call and no timer.
C17PingOnePong ==
    \A r \in ReqIds :
        IsType(r, "ping") =>
            /\ Len(SentFor(r)) = 1
            /\ SentFor(r)[1].type = "pong"
            /\ SentFor(r)[1].rid = reqs[r].rid
            /\ OnlyToSender(r)
            /\ reqs[r].pc = "done"
            /\ BackendCalls(r) = 0
            /\ NoTimer(r)

\* two pings with different requestIds on one connection were each answered
\* by a pong the client received
C17Witness ==
    \E r1, r2 \in ReqIds :
        /\ r1 < r2
        /\ IsType(r1, "ping") /\ IsType(r2, "ping")
        /\ reqs[r1].conn = reqs[r2].conn
        /\ reqs[r1].rid # NoRid /\ reqs[r2].rid # NoRid /\ reqs[r1].rid # reqs[r2].rid
        /\ SentFor(r1)[1].delivered /\ SentFor(r2)[1].delivered

\* --------------------------------------------------------------------- C16
\* the step accepted connection c
Accepted(c) == readyState[c] = "NONE" /\ readyState'[c] = "OPEN"
\* connection c has received a service-status message
HasStatus(c) ==
    \E i \in 1..Len(sent[c]) : sent[c][i].type = "service-status" /\ sent[c][i].delivered

\* C16: the step that accepts a connection gives it an identifier no
\* registered connection and no earlier confirmation carries, registers it,
\* and begins an invocation of updateServiceStatus; the first message of
\* every accepted connection is the connected confirmation, delivered, with
\* that identifier and without requestId.  With the interval never firing, a
\* connection that is open is eventually sent a service-status message
\* unless it stops being open first.
C16AcceptConfirmsAndBroadcasts ==
    /\ [][\A c \in Conns :
             Accepted(c) =>
                 /\ ~IsRegistered(c)
                 /\ \A d \in Conns : \A i \in 1..Len(sent[d]) : sent[d][i].clientId # c
                 /\ IsRegistered(c)'
                 /\ Len(cycles') = Len(cycles) + 1
                 /\ cycles'[Len(cycles')].startedBy = c
                 /\ cycles'[Len(cycles')].pc = "probe_voicevox"]_vars
    /\ [](\A c \in Conns :
             readyState[c] # "NONE" =>
                 /\ Len(sent[c]) >= 1
                 /\ sent[c][1].type = "connected"
                 /\ sent[c][1].clientId = c
                 /\ sent[c][1].rid = NoRid
                 /\ sent[c][1].delivered
                 /\ \A k \in 1..Len(cycles) : cycles[k].startedBy # 0)
    /\ \A c \in Conns :
          (readyState[c] = "OPEN") ~> (HasStatus(c) \/ readyState[c] # "OPEN")

\* the second connection was accepted after the first one's invocation had
\* finished; it is open and the second message it received is the snapshot
\* of the invocation its own acceptance began
C16Witness ==
    \E k \in 1..Len(cycles) :
        /\ k > 1
        /\ cycles[1].pc = "done"
        /\ cycles[k].startedBy = 2
        /\ cycles[k].pc = "done"
        /\ readyState[2] = "OPEN"
        /\ Len(sent[2]) = 2
        /\ sent[2][1].type = "connected"
        /\ sent[2][2].type = "service-status"
        /\ sent[2][2].cycle = k
        /\ sent[2][2].delivered

\* --------------------------------------------------------------------- C18
\* the handler of request r is suspended on a backend call
Suspended(r) == reqs[r].pc # "done"
\* request r has been replied to
Replied(r) == Len(SentFor(r)) > 0

\* C18: while any handler is suspended on a backend call, a message can be
\* received on every open connection, the suspended handler's own included,
\* and the call of every suspended handler can settle, in any order; a
\* handler starts in the turn its message is received, so handlers start in
\* order of receipt; and a step that replies to one request changes nothing
\* of any other request, so a reply never waits for, nor completes, an
\* earlier request.
C18SuspendedNeverBlocks ==
    /\ [](\A r \in ReqIds :
             Suspended(r) =>
                 /\ ENABLED SpeakersSettled(r)
                 /\ \A c \in Conns :
                       readyState[c] = "OPEN" =>
                           /\ ENABLED RecvPing(c, Len(reqs) + 1)
                           /\ ENABLED RecvSpeakers(c, Len(reqs) + 1))
    /\ [][/\ Len(reqs') >= Len(reqs)
          /\ \A r \in ReqIds :
                /\ reqs'[r].conn = reqs[r].conn
                /\ reqs'[r].rid = reqs[r].rid
                /\ Len(SentFor(r)') > Len(SentFor(r)) =>
                      \A o \in ReqIds \ {r} :
                          reqs'[o] = reqs[o] /\ SentFor(o)' = SentFor(o)
          /\ Len(reqs') > Len(reqs) =>
                /\ Len(reqs') = Len(reqs) + 1
                /\ reqs'[Len(reqs')].pc = "done" =>
                      Len(SelectSeq(sent'[reqs'[Len(reqs')].conn],
                                    LAMBDA m : m.req = Len(reqs) + 1)) = 1]_vars

\* the first request of a connection is still suspended, and two later
\* requests have been replied to and the replies received: one on another
\* connection, and one with a different requestId on the same connection,
\* itself answered after its backend call
C18Witness ==
    \E a, b, d \in ReqIds :
        /\ a < b /\ a < d
        /\ Suspended(a)
        /\ reqs[b].conn # reqs[a].conn
        /\ Replied(b) /\ SentFor(b)[1].delivered
        /\ reqs[d].conn = reqs[a].conn
        /\ IsType(d, "voicevox-speakers")
        /\ reqs[d].rid # reqs[a].rid
        /\ Replied(d) /\ SentFor(d)[1].delivered

\* --------------------------------------------------------------------- C19
\* how many service-status messages connection c has been handed
StatusCount(c) == Count(sent[c], "service-status")

\* C19: the Map holds, once each, exactly the connections that were accepted
\* and whose close handler has not run; deleting a connection that is not
\* in the Map leaves the Map as it is; a step hands a service-status message
\* only to connections that are in the Map and OPEN at that step, so none is
\* handed to a connection whose close handler has run.
C19RegistryExact ==
    /\ [](\A c \in Conns :
             /\ IsRegistered(c) = (readyState[c] \in {"OPEN", "CLOSING"})
             /\ Len(SelectSeq(clients, LAMBDA x : x = c)) <= 1
             /\ ~IsRegistered(c) => MapDelete(clients, c) = clients)
    /\ [][\A c \in Conns :
             /\ StatusCount(c)' # StatusCount(c) =>
                   /\ IsRegistered(c)
                   /\ readyState[c] = "OPEN"
                   /\ StatusCount(c)' = StatusCount(c) + 1
                   /\ sent'[c][Len(sent'[c])].delivered
             /\ readyState[c] = "CLOSED" => sent'[c] = sent[c] /\ readyState'[c] = "CLOSED"
             /\ (readyState[c] # "CLOSED" /\ readyState'[c] = "CLOSED") => ~IsRegistered(c)']_vars

\* invocation k finished after both connections had been accepted: the one
\* whose close handler has run is not in the Map and was handed nothing
\* but its confirmation, the other one is in the Map, open, and received the
\* snapshot of k
C19Witness ==
    \E k \in CycleIds, c1, c2 \in Conns :
        /\ c1 # c2
        /\ cycles[k].pc = "done"
        /\ RegisteredBefore(c1, k) /\ RegisteredBefore(c2, k)
        /\ readyState[c1] = "CLOSED" /\ ~IsRegistered(c1)
        /\ Len(sent[c1]) = 1
        /\ readyState[c2] = "OPEN" /\ IsRegistered(c2)
        /\ Len(StatusOf(c2, k)) = 1

\* --------------------------------------------------------------------- C20
\* the messages of a training job and of an upload
JobTypes ==
    {"rvc-training-started", "rvc-training-progress", "rvc-training-complete",
     "rvc-upload-response", "rvc-processing-complete"}

\* C20: every message of a training job or an upload carries the mark of
\* one request and is handed only to the connection that sent that request;
\* the i-th progress push of a job carries 10 * i and the job's own epochs,
\* whatever other jobs are running, the job has counted exactly its own
\* pushes, and its completion is sent exactly when its own count reaches
\* its own epochs; a step that advances one job changes neither the state
\* nor the messages of any other request.
C20JobsKeepApart ==
    /\ [](/\ \A c \in Conns : \A i \in 1..Len(sent[c]) :
                sent[c][i].type \in JobTypes =>
                    /\ sent[c][i].req \in ReqIds
                    /\ reqs[sent[c][i].req].conn = c
          /\ \A r \in ReqIds :
                IsType(r, "rvc-start-training") =>
                    LET q == SentFor(r)
                        prog == OfType(q, "rvc-training-progress")
                    IN /\ q[1].type = "rvc-training-started"
                       /\ q[1].rid = reqs[r].rid
                       /\ Count(q, "rvc-training-started") = 1
                       /\ \A i \in 1..Len(prog) :
                             /\ prog[i].currentEpoch = STEP * i
                             /\ prog[i].totalEpochs = reqs[r].epochs
                       /\ reqs[r].currentEpoch = STEP * Len(prog)
                       /\ Count(q, "rvc-training-complete") =
                             (IF STEP * Len(prog) >= reqs[r].epochs THEN 1 ELSE 0)
                       /\ (reqs[r].progressInterval = "cleared") =
                             (Count(q, "rvc-training-complete") = 1))
    /\ [][\A r \in ReqIds :
             reqs'[r] # reqs[r] =>
                 \A o \in ReqIds \ {r} : reqs'[o] = reqs[o] /\ SentFor(o)' = SentFor(o)]_vars

\* two training jobs on different connections ran at the same time: the one
\* started first, with 20 epochs, has sent one progress push and is still
\* running; the one started after it, with 10 epochs, is complete; each
\* client received its own job's messages
C20Witness ==
    \E a, b \in ReqIds :
        /\ a < b
        /\ IsType(a, "rvc-start-training") /\ IsType(b, "rvc-start-training")
        /\ reqs[a].conn # reqs[b].conn
        /\ reqs[a].epochs = 2 * STEP /\ reqs[b].epochs = STEP
        /\ reqs[a].progressInterval = "active" /\ reqs[a].currentEpoch = STEP
        /\ reqs[b].progressInterval = "cleared"
        /\ \A i \in 1..Len(SentFor(a)) : SentFor(a)[i].delivered
        /\ \A i \in 1..Len(SentFor(b)) : SentFor(b)[i].delivered
====
